---- MODULE Spec2Model ----
(***************************************************************************)
(* json2ansi: the column width allocator, the scaffold walker, the style  *)
(* cascade (src/src/main.py) and the inline markup parser                 *)
(* (src/src/json2ansi/markdown_to_rich.py).                               *)
(*                                                                         *)
(* Python values are represented as follows.                              *)
(*   str            a string                                              *)
(*   dict           a record; a text-array cell (a Python list of text    *)
(*                  dicts) is the record [type |-> "textArray", segs]     *)
(*   None           the string "None" (no style string of the program     *)
(*                  and no style field value spells it)                   *)
(*   a call         a record [status, value, error]: status is "pending"  *)
(*                  before the call, "returned" with the value, or        *)
(*                  "raised" with the name of the exception site          *)
(***************************************************************************)
EXTENDS Integers, Sequences, FiniteSets, TLC

VARIABLES
    columns,        \* render_table / compute_column_widths: node["columns"]
    rows,           \* node["rows"]
    context_width,  \* context_width argument
    indent,         \* indent argument
    col_widths,     \* outcome of compute_column_widths(columns, rows, context_width, indent)
    weights,        \* closest_ratio_distribution: weights argument
    total,          \* closest_ratio_distribution: total argument
    floor_values,   \* outcome of closest_ratio_distribution(weights, total)
    md,             \* parse_inline: the markdown string
    tokens,         \* outcome of parse_inline(md)
    styles,         \* combine_styles: the list of style dicts
    result,         \* outcome of combine_styles(styles)
    doc,            \* render_document: doc["content"]
    pc,             \* render_document: index of the next node of doc["content"]
    console,        \* the output sink: what console.print has written so far
    raised          \* the exception that ended the render, "none" while there is none

vars == <<columns, rows, context_width, indent, col_widths, weights, total,
          floor_values, md, tokens, styles, result, doc, pc, console, raised>>

----------------------------------------------------------------------------
(* Bounds of the model *)

MaxCols == 2        \* columns per table
MaxRows == 2        \* rows per table
MaxWidth == 10      \* largest context width
MaxIndent == 1      \* largest indent handed to render_table
MaxFlex == 3        \* flex weights handed to closest_ratio_distribution
MaxTotal == 7       \* |total| handed to closest_ratio_distribution

(* Program constants *)

FLEX_MIN_COLUMN_WIDTH == 3
DEFAULT_CONTEXT_WIDTH == 100

----------------------------------------------------------------------------
(* Generic helpers *)

Max(a, b) == IF a >= b THEN a ELSE b

Min(a, b) == IF a <= b THEN a ELSE b

RECURSIVE SumSeq(_)
SumSeq(s) == IF s = <<>> THEN 0 ELSE Head(s) + SumSeq(Tail(s))

SeqsUpTo(S, lo, hi) == UNION {[1..n -> S] : n \in lo..hi}

Pending == [status |-> "pending", value |-> <<>>, error |-> "none"]

Returned(v) == [status |-> "returned", value |-> v, error |-> "none"]

Raised(e) == [status |-> "raised", value |-> <<>>, error |-> e]

----------------------------------------------------------------------------
(* closest_ratio_distribution, src/src/main.py:153-170.                    *)
(* The shares w / total_weight * total are kept as the exact fractions    *)
(* (w * total) / total_weight.  For the weights and totals drawn below    *)
(* the binary64 values of the source have the same integer parts and the  *)
(* same order of fractional parts as the exact fractions.                 *)

\* int(v) for v = num / den, den # 0: truncation toward zero
TruncDiv(num, den) ==
    LET n == IF den < 0 THEN 0 - num ELSE num
        d == IF den < 0 THEN 0 - den ELSE den
    IN IF n >= 0 THEN n \div d ELSE 0 - ((0 - n) \div d)

\* v - int(v) for v = num / den, as a numerator over |den|
FracNum(num, den) ==
    LET n == IF den < 0 THEN 0 - num ELSE num
        d == IF den < 0 THEN 0 - den ELSE den
    IN n - TruncDiv(num, den) * d

\* len(seq[:k]) of a Python slice: a negative k counts from the end
SliceLen(n, k) == IF k >= 0 THEN Min(k, n) ELSE Max(n + k, 0)

\* the indices i of sorted(remainders, reverse=True)[:remainder]
Awarded(ws, tot) ==
    LET tw == SumSeq(ws)
        n == Len(ws)
        fl == [i \in 1..n |-> TruncDiv(ws[i] * tot, tw)]
        fr == [i \in 1..n |-> FracNum(ws[i] * tot, tw)]
        remainder == tot - SumSeq(fl)
        \* (fr[j], j) sorts before (fr[i], i) in descending tuple order
        Before(j, i) == fr[j] > fr[i] \/ (fr[j] = fr[i] /\ j > i)
        rank == [i \in 1..n |-> Cardinality({j \in 1..n : Before(j, i)})]
    IN {i \in 1..n : rank[i] < SliceLen(n, remainder)}

\* every share rounded toward zero and the leftover units given to nobody
closest_ratio_distribution_truncating(ws, tot) ==
    IF tot = 0 THEN Returned([i \in 1..Len(ws) |-> 0])
    ELSE IF SumSeq(ws) = 0 THEN Raised("AllWeightsZero")
    ELSE Returned([i \in 1..Len(ws) |-> TruncDiv(ws[i] * tot, SumSeq(ws))])

closest_ratio_distribution(ws, tot) ==
    IF tot = 0 THEN Returned([i \in 1..Len(ws) |-> 0])
    ELSE IF SumSeq(ws) = 0 THEN Raised("AllWeightsZero")
    ELSE LET tw == SumSeq(ws)
             aw == Awarded(ws, tot)
         IN Returned([i \in 1..Len(ws) |->
                TruncDiv(ws[i] * tot, tw) + (IF i \in aw THEN 1 ELSE 0)])

----------------------------------------------------------------------------
(* calc_dynamic_width, src/src/main.py:136-150 *)

\* the length measured for one cell, -1 for a cell that matches no case
CellLen(cell) ==
    IF cell.type = "text" THEN Len(cell.value)
    ELSE IF cell.type = "repeat" THEN Len(cell.value)
    ELSE IF cell.type = "textArray"
         THEN IF \A k \in 1..Len(cell.segs) : cell.segs[k].type = "text"
              THEN SumSeq([k \in 1..Len(cell.segs) |-> Len(cell.segs[k].value)])
              ELSE 0 - 1
    ELSE 0 - 1

RECURSIVE MaxLenFrom(_, _, _)
MaxLenFrom(max_len, rs, col_idx) ==
    IF rs = <<>> THEN max_len
    ELSE MaxLenFrom(Max(max_len, CellLen(Head(rs)[col_idx])), Tail(rs), col_idx)

calc_dynamic_width(rs, col_idx) ==
    IF \E r \in 1..Len(rs) : CellLen(rs[r][col_idx]) < 0
    THEN Raised("UnknownCellType")
    ELSE Returned(MaxLenFrom(FLEX_MIN_COLUMN_WIDTH, rs, col_idx))

----------------------------------------------------------------------------
(* compute_column_widths, src/src/main.py:173-210 *)

\* Pass 1, one column: the width, "flex" for a deferred column, or the raise
SizeOutcome(size, rs, i) ==
    IF size.mode = "fixed" /\ size.value > 0 THEN Returned(size.value)
    ELSE IF size.mode = "fixed" /\ size.value = 0 THEN calc_dynamic_width(rs, i)
    ELSE IF size.mode = "flex" THEN [status |-> "flex", value |-> size.value, error |-> "none"]
    ELSE Raised("InvalidSizeSpec")

flex_indices_of(cols) == {i \in 1..Len(cols) : cols[i].size.mode = "flex"}

\* the k-th smallest element of a set of indices (flex_indices is built in column order)
RECURSIVE NthOf(_, _)
NthOf(S, k) ==
    LET m == CHOOSE x \in S : \A y \in S : x <= y
    IN IF k = 1 THEN m ELSE NthOf(S \ {m}, k - 1)

\* the fit check with the separators left out of used_width
FitCheckNoSeparators(widths, effective_width) ==
    IF SumSeq(widths) > effective_width
    THEN Raised("TableWidthExceeds")
    ELSE Returned(widths)

\* Error if table cannot fit (lines 205-210)
FitCheck(widths, effective_width) ==
    IF SumSeq(widths) + (Len(widths) - 1) > effective_width
    THEN Raised("TableWidthExceeds")
    ELSE Returned(widths)

compute_column_widths(cols, rs, cw, ind) ==
    LET effective_width == Max(cw - ind, FLEX_MIN_COLUMN_WIDTH)
        num_cols == Len(cols)
        total_separators == num_cols - 1
        pass1 == [i \in 1..num_cols |-> SizeOutcome(cols[i].size, rs, i)]
        failing == {i \in 1..num_cols : pass1[i].status = "raised"}
        flex_indices == flex_indices_of(cols)
        nflex == Cardinality(flex_indices)
        flex_pos == [k \in 1..nflex |-> NthOf(flex_indices, k)]
        flex_weights == [k \in 1..nflex |-> cols[flex_pos[k]].size.value]
        used_width == SumSeq([i \in 1..num_cols |->
                          IF i \in flex_indices THEN 0 ELSE pass1[i].value])
                      + total_separators
        remaining == effective_width - used_width
        flex_widths == closest_ratio_distribution(flex_weights, remaining)
        idx_of == [i \in flex_indices |-> CHOOSE k \in 1..nflex : flex_pos[k] = i]
    IN IF failing # {}
       THEN \* the loop of pass 1 stops at the first column that raises
            Raised(pass1[CHOOSE i \in failing : \A j \in failing : i <= j].error)
       ELSE IF flex_indices # {} /\ flex_widths.status = "raised"
       THEN Raised(flex_widths.error)
       ELSE FitCheck([i \in 1..num_cols |->
                         IF i \in flex_indices
                         THEN Max(flex_widths.value[idx_of[i]], FLEX_MIN_COLUMN_WIDTH)
                         ELSE pass1[i].value],
                     effective_width)

----------------------------------------------------------------------------
(* render_table, src/src/main.py:213-255.  What console.print receives is *)
(* kept as the record of the table's left padding, print width and column *)
(* widths.                                                                *)

TableOutput(widths, ind, cw) ==
    [kind |-> "table", indent |-> ind, width |-> cw, col_widths |-> widths]

\* render_table printing before the widths are known to fit
render_table_print_first(node, con, ind, cw) ==
    LET w == compute_column_widths(node.columns, node.rows, cw, ind)
    IN [console |-> Append(con, TableOutput(w.value, ind, cw)),
        raised |-> IF w.status = "raised" THEN w.error ELSE "none"]

\* the sink and the exception after render_table(node, console, indent, context_width)
render_table(node, con, ind, cw) ==
    LET w == compute_column_widths(node.columns, node.rows, cw, ind)
    IN IF w.status = "raised"
       THEN [console |-> con, raised |-> w.error]
       ELSE [console |-> Append(con, TableOutput(w.value, ind, cw)), raised |-> "none"]

----------------------------------------------------------------------------
(* The inputs the calls are made with *)

TextCell(v) == [type |-> "text", value |-> v]

RepeatCell(v) == [type |-> "repeat", value |-> v]

TextArrayCell(ss) == [type |-> "textArray", segs |-> ss]

\* cells of a size-to-content column: a text of length 2, a text array of length 5
DynamicCells == {TextCell("ab"), TextArrayCell(<<TextCell("ab"), TextCell("cde")>>)}

\* the cell of every other column (compute_column_widths never reads it)
FillCell == RepeatCell("-")

Fixed(v) == [mode |-> "fixed", value |-> v]

Flex(w) == [mode |-> "flex", value |-> w]

FixedValues == {0 - 1, 0, 2}

FlexWeights == {0 - 1, 0, 1, 2}

Sizes == {Fixed(v) : v \in FixedValues} \cup {Flex(w) : w \in FlexWeights}

ColumnLists == SeqsUpTo({[size |-> z] : z \in Sizes}, 0, MaxCols)

IsDynamic(col) == col.size.mode = "fixed" /\ col.size.value = 0

RowsOf(cols) ==
    {r \in [1..Len(cols) -> DynamicCells \cup {FillCell}] :
        \A i \in 1..Len(cols) : r[i] = FillCell <=> ~IsDynamic(cols[i])}

RowLists(cols) == SeqsUpTo(RowsOf(cols), 0, MaxRows)

IdleAlloc ==
    /\ columns = <<>> /\ rows = <<>> /\ context_width = 0 /\ indent = 0
    /\ col_widths = Pending

IdleDist == weights = <<>> /\ total = 0 /\ floor_values = Pending

IdleParse == md = "" /\ tokens = Pending

IdleStyle == styles = <<>> /\ result = Pending

IdleWalk == doc = <<>>

----------------------------------------------------------------------------
(* compute_column_widths called on one table *)

InitAlloc ==
    /\ columns \in ColumnLists
    /\ rows \in RowLists(columns)
    /\ context_width \in 0..MaxWidth
    /\ indent \in 0..MaxIndent
    /\ col_widths = Pending
    /\ pc = 0 /\ console = <<>> /\ raised = "none"
    /\ IdleDist /\ IdleParse /\ IdleStyle /\ IdleWalk

ComputeColumnWidths ==
    /\ col_widths.status = "pending"
    /\ col_widths' = compute_column_widths(columns, rows, context_width, indent)
    /\ UNCHANGED <<columns, rows, context_width, indent, weights, total, floor_values,
                   md, tokens, styles, result, doc, pc, console, raised>>

NextAlloc == ComputeColumnWidths

SpecAlloc == InitAlloc /\ [][NextAlloc]_vars

----------------------------------------------------------------------------
(* render_table called on one table node, with an empty sink *)

RenderTable ==
    /\ pc = 0
    /\ LET r == render_table([columns |-> columns, rows |-> rows],
                             console, indent, context_width)
       IN console' = r.console /\ raised' = r.raised
    /\ pc' = 1
    /\ UNCHANGED <<columns, rows, context_width, indent, col_widths, weights, total,
                   floor_values, md, tokens, styles, result, doc>>

NextRender == RenderTable

SpecRender == InitAlloc /\ [][NextRender]_vars

----------------------------------------------------------------------------
(* closest_ratio_distribution called on its own *)

InitDist ==
    /\ weights \in SeqsUpTo(FlexWeights, 0, MaxFlex)
    /\ total \in (0 - MaxTotal)..MaxTotal
    /\ floor_values = Pending
    /\ pc = 0 /\ console = <<>> /\ raised = "none"
    /\ IdleAlloc /\ IdleParse /\ IdleStyle /\ IdleWalk

ClosestRatioDistribution ==
    /\ floor_values.status = "pending"
    /\ floor_values' = closest_ratio_distribution(weights, total)
    /\ UNCHANGED <<columns, rows, context_width, indent, col_widths, weights, total,
                   md, tokens, styles, result, doc, pc, console, raised>>

NextDist == ClosestRatioDistribution

SpecDist == InitDist /\ [][NextDist]_vars

----------------------------------------------------------------------------
(* Properties of the allocator *)

EffectiveWidth == Max(context_width - indent, 3)

\* C1: whenever compute_column_widths returns, the widths and the separators
\* fit the budget: sum(widths) + (numColumns - 1) <= max(contextWidth - indent, 3)
C1_WidthsFitBudget ==
    col_widths.status = "returned" =>
        SumSeq(col_widths.value) + (Len(columns) - 1) <= EffectiveWidth

\* a table with a fixed, a flex column and rows has been allocated
C1_Witness ==
    /\ col_widths.status = "returned"
    /\ Len(columns) = 2
    /\ \E i \in 1..2 : columns[i].size.mode = "flex" /\ columns[i].size.value > 0
    /\ \E i \in 1..2 : columns[i].size.mode = "fixed"
    /\ context_width - indent > 3

AllPositive(ws) == \A i \in 1..Len(ws) : ws[i] > 0

\* C2: for non-empty positive weights and any integer budget, the distributed
\* widths sum exactly to the budget
C2_DistributionSumsToRemaining ==
    (floor_values.status # "pending" /\ weights # <<>> /\ AllPositive(weights)) =>
        /\ floor_values.status = "returned"
        /\ SumSeq(floor_values.value) = total

\* the largest measured content length of column i, over all rows
RECURSIVE MaxContent(_, _)
MaxContent(rs, i) ==
    IF Len(rs) = 1 THEN CellLen(rs[1][i])
    ELSE Max(CellLen(Head(rs)[i]), MaxContent(Tail(rs), i))

\* C3: a Fixed(0) column gets exactly the largest measured content length of its
\* own cells, with no minimum floor
C3_DynamicWidthIsMaxContent ==
    (col_widths.status = "returned" /\ rows # <<>>) =>
        \A i \in 1..Len(columns) :
            IsDynamic(columns[i]) => col_widths.value[i] = MaxContent(rows, i)

\* the unit closest_ratio_distribution added to column k on top of int(share)
ExtraUnit(k) ==
    floor_values.value[k] - TruncDiv(weights[k] * total, SumSeq(weights))

\* C11: among flex columns with equal fractional remainders the leftover
\* units go to the columns that come first in column order: a column holds an
\* extra unit only if every earlier column with the same fraction holds one
C11_TieGoesToLowerIndex ==
    (floor_values.status = "returned" /\ weights # <<>> /\ AllPositive(weights)
        /\ total > 0) =>
        \A i, j \in 1..Len(weights) :
            (i < j /\ FracNum(weights[i] * total, SumSeq(weights))
                        = FracNum(weights[j] * total, SumSeq(weights))
                   /\ ExtraUnit(j) = 1) => ExtraUnit(i) = 1

FixedSum(cols) ==
    SumSeq([i \in 1..Len(cols) |->
        IF cols[i].size.mode = "fixed" /\ cols[i].size.value > 0
        THEN cols[i].size.value ELSE 0])

\* C4 as stated: fixed widths that alone exceed contextWidth make render_table
\* raise the overflow error with nothing written, for every contextWidth and indent
C4_FixedOverflowAlwaysRaises ==
    (pc = 1 /\ FixedSum(columns) > context_width) =>
        raised = "TableWidthExceeds" /\ console = <<>>

WellFormedSizes(cols) ==
    \A i \in 1..Len(cols) :
        \/ cols[i].size.mode = "fixed" /\ cols[i].size.value >= 0
        \/ cols[i].size.mode = "flex" /\ cols[i].size.value > 0

\* C4 amended: for well-formed column sizes and contextWidth >= 3, fixed widths
\* that alone exceed contextWidth make render_table raise the overflow error
\* before anything is written to the sink
C4_FixedOverflowRaises ==
    (pc = 1 /\ FixedSum(columns) > context_width /\ context_width >= 3
        /\ WellFormedSizes(columns)) =>
        raised = "TableWidthExceeds" /\ console = <<>>

\* render_table was called on a well-formed table whose fixed columns overflow
C4_Witness ==
    /\ pc = 1 /\ FixedSum(columns) > context_width /\ context_width >= 3
    /\ WellFormedSizes(columns)
    /\ raised = "TableWidthExceeds"

\* the flex columns of the table, and whether there are any and all their
\* weights are positive
FlexColumns == flex_indices_of(columns)

PositiveFlex ==
    FlexColumns # {} /\ \A i \in FlexColumns : columns[i].size.value > 0

\* pass 1 (lines 184-194) gives every non-flex column a width
Pass1Ok ==
    \A i \in 1..Len(columns) : SizeOutcome(columns[i].size, rows, i).status # "raised"

\* remaining of line 198: the budget left for the flex columns after the
\* non-flex widths and the separators
RemainingWidth ==
    EffectiveWidth
        - SumSeq([i \in 1..Len(columns) |->
                     IF i \in FlexColumns THEN 0
                     ELSE SizeOutcome(columns[i].size, rows, i).value])
        - (Len(columns) - 1)

FlexWeightSum ==
    SumSeq([i \in 1..Len(columns) |->
               IF i \in FlexColumns THEN columns[i].size.value ELSE 0])

\* flex_widths of line 201: the shares before the floor of line 204
FlexShares ==
    LET n == Cardinality(FlexColumns)
    IN closest_ratio_distribution(
           [k \in 1..n |-> columns[NthOf(FlexColumns, k)].size.value],
           RemainingWidth)

\* the integer part and the fraction (in units of 1/FlexWeightSum) of flex
\* column i's exact share of the remaining width
ShareFloor(i) == TruncDiv(columns[i].size.value * RemainingWidth, FlexWeightSum)

ShareFrac(i) == FracNum(columns[i].size.value * RemainingWidth, FlexWeightSum)

\* C13: for a table with at least one flex column and all flex weights
\* positive, a successful compute_column_widths fills the budget exactly,
\* sum(widths) + (numColumns - 1) = max(contextWidth - indent, 3), and every
\* flex width is its largest-remainder share, unchanged by the minimum of 3:
\* the integer part of its exact share plus at most one unit, a unit going
\* to a larger fraction before a smaller one; and when the minimum of 3
\* would raise a flex share, the allocation raises the overflow error
C13_FlexFillsBudgetExactly ==
    (col_widths.status # "pending" /\ PositiveFlex) =>
        /\ col_widths.status = "returned" =>
              /\ SumSeq(col_widths.value) + (Len(columns) - 1) = EffectiveWidth
              /\ \A k \in 1..Cardinality(FlexColumns) :
                     col_widths.value[NthOf(FlexColumns, k)] = FlexShares.value[k]
              /\ \A i \in FlexColumns :
                     /\ col_widths.value[i] >= FLEX_MIN_COLUMN_WIDTH
                     /\ col_widths.value[i] - ShareFloor(i) \in {0, 1}
              /\ \A i, j \in FlexColumns :
                     (ShareFrac(i) > ShareFrac(j)
                         /\ col_widths.value[j] - ShareFloor(j) = 1)
                     => col_widths.value[i] - ShareFloor(i) = 1
        /\ (Pass1Ok /\ \E k \in 1..Cardinality(FlexColumns) :
                          FlexShares.value[k] < FLEX_MIN_COLUMN_WIDTH) =>
              col_widths.status = "raised" /\ col_widths.error = "TableWidthExceeds"

\* two flex columns of different weight have been given their shares, the
\* leftover unit going to the column with the larger fraction
C13_Witness ==
    /\ col_widths.status = "returned" /\ PositiveFlex
    /\ \E i, j \in FlexColumns :
          /\ ShareFrac(i) > ShareFrac(j)
          /\ col_widths.value[i] = ShareFloor(i) + 1
          /\ col_widths.value[j] = ShareFloor(j)

Malformed(cols) ==
    \E i \in 1..Len(cols) :
        \/ cols[i].size.mode = "fixed" /\ cols[i].size.value < 0
        \/ cols[i].size.mode = "flex" /\ cols[i].size.value <= 0

\* C6: a negative fixed width, a non-positive flex weight or all-zero flex
\* weights never yield a width list: compute_column_widths raises
C6_MalformedSizeRaises ==
    (col_widths.status # "pending" /\ Malformed(columns)) =>
        col_widths.status = "raised"

----------------------------------------------------------------------------
(* MarkdownParser, src/src/json2ansi/markdown_to_rich.py.  A match is the  *)
(* record of re.Match: start is the 1-based index of its first character, *)
(* stop the index after its last one.                                     *)

None == "None"

Token(text, style) == [text |-> text, style |-> style]

\* Patterns in order of precedence (PATTERNS, lines 27-34)
PATTERNS ==
    << [open |-> "***", close |-> "***", style |-> "bold italic"],
       [open |-> "**", close |-> "**", style |-> "bold"],
       [open |-> "*", close |-> "*", style |-> "italic"],
       [open |-> "~~", close |-> "~~", style |-> "strike"],
       [open |-> "__", close |-> "__", style |-> "underline"],
       [open |-> "[", close |-> "](", style |-> "link"] >>

NoMatch == [found |-> FALSE, start |-> 0, stop |-> 0, group1 |-> "", group2 |-> ""]

\* the literal lit stands at index p of s
HasAt(s, p, lit) ==
    p >= 1 /\ p + Len(lit) - 1 <= Len(s) /\ SubSeq(s, p, p + Len(lit) - 1) = lit

MinOf(S) == CHOOSE x \in S : \A y \in S : x <= y

\* re.search of  open(.+?)close : the leftmost start, then the shortest
\* group of at least one character
SearchDelim(s, open, close) ==
    LET closes(b) == {e \in (b + Len(open) + 1)..Len(s) : HasAt(s, e, close)}
        starts == {b \in 1..Len(s) : HasAt(s, b, open) /\ closes(b) # {}}
    IN IF starts = {} THEN NoMatch
       ELSE LET b == MinOf(starts)
                e == MinOf(closes(b))
            IN [found |-> TRUE, start |-> b, stop |-> e + Len(close),
                group1 |-> SubSeq(s, b + Len(open), e - 1), group2 |-> ""]

\* re.search of  \[(.+?)\]\((.+?)\)
SearchLink(s) ==
    LET ends(e1) == {e2 \in (e1 + 3)..Len(s) : HasAt(s, e2, ")")}
        mids(b) == {e1 \in (b + 2)..Len(s) : HasAt(s, e1, "](") /\ ends(e1) # {}}
        starts == {b \in 1..Len(s) : HasAt(s, b, "[") /\ mids(b) # {}}
    IN IF starts = {} THEN NoMatch
       ELSE LET b == MinOf(starts)
                e1 == MinOf(mids(b))
                e2 == MinOf(ends(e1))
            IN [found |-> TRUE, start |-> b, stop |-> e2 + 1,
                group1 |-> SubSeq(s, b + 1, e1 - 1),
                group2 |-> SubSeq(s, e1 + 2, e2 - 1)]

Search(k, s) ==
    IF PATTERNS[k].style = "link" THEN SearchLink(s)
    ELSE SearchDelim(s, PATTERNS[k].open, PATTERNS[k].close)

\* the first pattern of PATTERNS that matches anywhere, 0 for none
FirstPatternByPrecedence(s) ==
    LET found == {k \in 1..Len(PATTERNS) : Search(k, s).found}
    IN IF found = {} THEN 0 ELSE MinOf(found)

\* lines 49-56: the index of the pattern kept in first_match, 0 for none;
\* a later pattern replaces an earlier one only with a smaller start
FirstPattern(s) ==
    LET found == {k \in 1..Len(PATTERNS) : Search(k, s).found}
    IN IF found = {} THEN 0
       ELSE CHOOSE k \in found : \A j \in found :
                \/ Search(k, s).start < Search(j, s).start
                \/ (Search(k, s).start = Search(j, s).start /\ k <= j)

\* handle_bold, lines 84-104: the loop over re.finditer from position pos
RECURSIVE BoldFrom(_, _)
BoldFrom(inner_text, pos) ==
    LET rest == SubSeq(inner_text, pos, Len(inner_text))
        m == SearchDelim(rest, "*", "*")
    IN IF ~m.found
       THEN IF pos <= Len(inner_text) THEN <<Token(rest, "bold")>> ELSE <<>>
       ELSE (IF m.start > 1
             THEN <<Token(SubSeq(rest, 1, m.start - 1), "bold")>> ELSE <<>>)
            \o <<Token(m.group1, "bold italic")>>
            \o BoldFrom(inner_text, pos + m.stop - 1)

\* lines 75-76: the style of an inner token under first_style
Restyle(toks, first_style) ==
    [i \in 1..Len(toks) |->
        Token(toks[i].text,
              IF toks[i].style = None THEN first_style
              ELSE toks[i].style \o " " \o first_style)]

\* line 119: the style of a token of the link text
LinkStyle(toks, url) ==
    [i \in 1..Len(toks) |->
        Token(toks[i].text,
              (IF toks[i].style # None THEN toks[i].style \o " " ELSE "")
                  \o "link " \o url)]

\* handle_bold without the scan for nested italic
handle_bold_flat(inner_text) == <<Token(inner_text, "bold")>>

handle_bold(inner_text) == BoldFrom(inner_text, 1)

\* the string kept with an empty style string in place of None
UnmatchedEmptyStyle(s) == <<Token(s, "")>>

\* lines 58-59: no pattern matches
Unmatched(s) == <<Token(s, None)>>

RECURSIVE parse_inline(_)
parse_inline(s) ==
    IF s = "" THEN <<>>
    ELSE LET k == FirstPattern(s)
             first_match == Search(k, s)
             first_style == PATTERNS[k].style
         IN IF k = 0 THEN Unmatched(s)
            ELSE (IF first_match.start > 1
                  THEN parse_inline(SubSeq(s, 1, first_match.start - 1)) ELSE <<>>)
                 \o (IF first_style = "bold" THEN handle_bold(first_match.group1)
                     ELSE IF first_style = "link"
                     THEN \* handle_link, lines 106-120
                          LinkStyle(parse_inline(first_match.group1), first_match.group2)
                     ELSE Restyle(parse_inline(first_match.group1), first_style))
                 \o (IF first_match.stop <= Len(s)
                     THEN parse_inline(SubSeq(s, first_match.stop, Len(s))) ELSE <<>>)

----------------------------------------------------------------------------
(* parse_inline called on one string *)

MaxPieces == 5      \* pieces a drawn string is put together from

Pieces == {"a", "*", "~~", "__", "[", "](", ")"}

RECURSIVE StringsOf(_)
StringsOf(n) ==
    IF n = 0 THEN {""}
    ELSE {""} \cup {p \o s : p \in Pieces, s \in StringsOf(n - 1)}

\* bold spans around an italic span, among them the example "**a *b* c**"
BoldSamples ==
    {"**" \o x \o "*" \o y \o "*" \o z \o "**" :
        x \in {"", "a", "a "}, y \in {"b", "b b"}, z \in {"", "c", " c"}}

\* bold spans around two italic spans
BoldSamples2 ==
    {"**" \o x \o "*b*" \o m \o "*d*" \o z \o "**" :
        x \in {"", "a "}, m \in {" ", "c"}, z \in {"e", " e"}}

\* strings without markup characters
PlainSamples == {"b", "a b", "hello world"}

\* strings where markers of several patterns open at the same or at
\* different offsets
PrecedenceSamples ==
    {"***a***", "[*a*](a)", "*[a](a)*", "~~a~~ **b**", "[a](b) ***c***",
     "a __b__ *c*", "**[a](b)**", "a ~~*b*~~"}

InitParse ==
    /\ md \in StringsOf(MaxPieces) \cup BoldSamples \cup BoldSamples2
                \cup PlainSamples \cup PrecedenceSamples
    /\ tokens = Pending
    /\ pc = 0 /\ console = <<>> /\ raised = "none"
    /\ IdleAlloc /\ IdleDist /\ IdleStyle /\ IdleWalk

ParseInline ==
    /\ tokens.status = "pending"
    /\ tokens' = Returned(parse_inline(md))
    /\ UNCHANGED <<columns, rows, context_width, indent, col_widths, weights, total,
                   floor_values, md, styles, result, doc, pc, console, raised>>

NextParse == ParseInline

SpecParse == InitParse /\ [][NextParse]_vars

----------------------------------------------------------------------------
(* Properties of the markup parser *)

MarkupChars == {"*", "~", "_", "[", "]", "(", ")"}

NoMarkup(s) == \A p \in 1..Len(s) : SubSeq(s, p, p) \notin MarkupChars

\* C7 as stated: every string without markup characters, the empty string
\* included, parses to exactly one fragment, the input itself, with no style
C7_PlainTextOneFragmentAlways ==
    (tokens.status = "returned" /\ NoMarkup(md)) =>
        tokens.value = <<[text |-> md, style |-> None]>>

\* C7 amended: every non-empty string without markup characters parses to
\* exactly one fragment, the input itself, with no style; the empty string
\* parses to no fragment
C7_PlainTextOneFragment ==
    (tokens.status = "returned" /\ NoMarkup(md)) =>
        IF md = "" THEN tokens.value = <<>>
        ELSE tokens.value = <<[text |-> md, style |-> None]>>

\* a plain string of several characters has been parsed
C7_Witness ==
    tokens.status = "returned" /\ NoMarkup(md) /\ Len(md) >= 2

Bold(t) == IF t = "" THEN <<>> ELSE <<[text |-> t, style |-> "bold"]>>

BoldItalic(t) == <<[text |-> t, style |-> "bold italic"]>>

Matching(s) == {k \in 1..Len(PATTERNS) : Search(k, s).found}

\* the smallest starting offset among the matches of all patterns
LeftmostStart(s) == MinOf({Search(k, s).start : k \in Matching(s)})

\* the earliest pattern in precedence order among those that match at the
\* smallest starting offset
LeftmostPattern(s) ==
    MinOf({k \in Matching(s) : Search(k, s).start = LeftmostStart(s)})

\* C12: the span parse_inline processes is the match with the smallest
\* starting offset among the matches of all six patterns, and among matches
\* that start at that offset the one of the earliest pattern in precedence
\* order: the result is the text before that match as one unstyled fragment,
\* then the fragments of that match under its style, then the parse of the
\* text after it
C12_LeftmostMatchProcessed ==
    (tokens.status = "returned" /\ md # "") =>
        IF Matching(md) = {} THEN tokens.value = <<Token(md, None)>>
        ELSE LET k == LeftmostPattern(md)
                 m == Search(k, md)
                 style == PATTERNS[k].style
                 before == IF m.start > 1
                           THEN <<Token(SubSeq(md, 1, m.start - 1), None)>>
                           ELSE <<>>
                 span == IF style = "bold" THEN handle_bold(m.group1)
                         ELSE IF style = "link"
                         THEN LinkStyle(parse_inline(m.group1), m.group2)
                         ELSE Restyle(parse_inline(m.group1), style)
                 after == IF m.stop <= Len(md)
                          THEN parse_inline(SubSeq(md, m.stop, Len(md)))
                          ELSE <<>>
             IN tokens.value = before \o span \o after

\* an underline span that opens before the italic span inside it has been
\* processed first, although italic precedes underline in PATTERNS
C12_Witness ==
    /\ tokens.status = "returned" /\ md = "__*a*__"
    /\ Search(3, md).found /\ Search(5, md).found
    /\ Search(5, md).start < Search(3, md).start
    /\ tokens.value = <<Token("a", "italic underline")>>

----------------------------------------------------------------------------
(* combine_styles, src/src/main.py:94-101.  A style dict is a function    *)
(* from the keys it holds to their values; the values true, false and     *)
(* None are written as strings.                                           *)

\* result.update(style)
Update(res, style) ==
    [k \in (DOMAIN res) \cup (DOMAIN style) |->
        IF k \in DOMAIN style THEN style[k] ELSE res[k]]

RECURSIVE CombineFrom(_, _)
CombineFrom(res, ss) ==
    IF ss = <<>> THEN res ELSE CombineFrom(Update(res, Head(ss)), Tail(ss))

combine_styles(ss) == CombineFrom([k \in {} |-> None], ss)

MaxStyles == 3      \* style dicts in one list

StyleValues == [fg |-> {"red", "blue", None}, bold |-> {"true", "false", None}]

StyleDicts ==
    UNION {{d \in [D -> {"red", "blue", "true", "false", None}] :
                \A k \in D : d[k] \in StyleValues[k]} : D \in SUBSET {"fg", "bold"}}

InitStyle ==
    /\ styles \in SeqsUpTo(StyleDicts, 0, MaxStyles)
    /\ result = Pending
    /\ pc = 0 /\ console = <<>> /\ raised = "none"
    /\ IdleAlloc /\ IdleDist /\ IdleParse /\ IdleWalk

CombineStyles ==
    /\ result.status = "pending"
    /\ result' = Returned(combine_styles(styles))
    /\ UNCHANGED <<columns, rows, context_width, indent, col_widths, weights, total,
                   floor_values, md, tokens, styles, doc, pc, console, raised>>

NextStyle == CombineStyles

SpecStyle == InitStyle /\ [][NextStyle]_vars

\* the declarations in which field f carries a value
Carrying(ss, f) == {i \in 1..Len(ss) : f \in DOMAIN ss[i] /\ ss[i][f] # None}

\* C10: for each field the combined style holds the value of the last
\* declaration in which the field carries a value; a later None or absent
\* field never erases it
C10_LastValueWins ==
    result.status = "returned" =>
        \A f \in {"fg", "bold"} :
            Carrying(styles, f) # {} =>
                /\ f \in DOMAIN result.value
                /\ result.value[f] =
                      styles[CHOOSE i \in Carrying(styles, f) :
                                \A j \in Carrying(styles, f) : j <= i][f]

----------------------------------------------------------------------------
(* render_scaffold and render_document, src/src/main.py:258-272 *)

BlankOutput == [kind |-> "blank"]

\* an Indent that sets the indent of its content instead of adding to it
child_indent_reset(ind, node) == node.indent

\* line 260
child_indent_of(ind, node) == ind + node.indent

RECURSIVE render_scaffold(_, _, _, _), RenderContent(_, _, _, _)
render_scaffold(node, con, ind, cw) ==
    IF node.type = "indent"
    THEN RenderContent(node.content, con, child_indent_of(ind, node), cw)
    ELSE IF node.type = "table" THEN render_table(node, con, ind, cw)
    ELSE IF node.type = "br" THEN [console |-> Append(con, BlankOutput), raised |-> "none"]
    ELSE [console |-> con, raised |-> "none"]

\* lines 261-262: the children in order, up to the first one that raises
RenderContent(children, con, ind, cw) ==
    IF children = <<>> THEN [console |-> con, raised |-> "none"]
    ELSE LET r == render_scaffold(Head(children), con, ind, cw)
         IN IF r.raised # "none" THEN r
            ELSE RenderContent(Tail(children), r.console, ind, cw)

MaxNodes == 4       \* nodes of a document tree

\* the amounts of the Indent nodes
Amounts == {2, 3}

BrNode == [type |-> "br"]

\* a table of one fixed column of width 4: it fits a budget of 4 or more
TableNode == [type |-> "table", columns |-> <<[size |-> Fixed(4)]>>, rows |-> <<>>]

\* a node of a type the walker does not know
ImageNode == [type |-> "image"]

IndentNode(a, c) == [type |-> "indent", indent |-> a, content |-> c]

RECURSIVE Forests(_), Trees(_)
\* the node lists of at most n nodes in all
Forests(n) ==
    IF n = 0 THEN {<<>>}
    ELSE {<<>>} \cup UNION {{<<t>> \o f : t \in Trees(k), f \in Forests(n - k)} : k \in 1..n}

\* the nodes of at most n nodes in all, n >= 1
Trees(n) ==
    {BrNode, TableNode, ImageNode}
        \cup {IndentNode(a, c) : a \in Amounts, c \in Forests(n - 1)}

InitWalk ==
    /\ doc \in Forests(MaxNodes)
    /\ context_width \in {6, DEFAULT_CONTEXT_WIDTH}
    /\ pc = 1 /\ console = <<>> /\ raised = "none"
    /\ columns = <<>> /\ rows = <<>> /\ indent = 0 /\ col_widths = Pending
    /\ IdleDist /\ IdleParse /\ IdleStyle

\* one turn of the loop of render_document over doc["content"]
RenderNode ==
    /\ raised = "none"
    /\ pc <= Len(doc)
    /\ LET r == render_scaffold(doc[pc], console, 0, context_width)
       IN console' = r.console /\ raised' = r.raised
    /\ pc' = pc + 1
    /\ UNCHANGED <<columns, rows, context_width, indent, col_widths, weights, total,
                   floor_values, md, tokens, styles, result, doc>>

NextWalk == RenderNode

SpecWalk == InitWalk /\ [][NextWalk]_vars

----------------------------------------------------------------------------
(* Properties of the scaffold walker *)

KnownTypes == {"indent", "table", "br"}

\* C5: a node of a type other than indent, table and br makes the render
\* fail with the unrecognized-scaffold-node error
C5_UnknownNodeRaises ==
    (\E i \in 1..(pc - 1) : doc[i].type \notin KnownTypes) =>
        raised = "UnrecognizedScaffoldNode"

\* the paths (child indices from the top) of the tables of a node list, in
\* document order
RECURSIVE TablePaths(_)
TablePaths(nodes) ==
    IF nodes = <<>> THEN <<>>
    ELSE LET n == Len(nodes)
             last == nodes[n]
             below == IF last.type = "indent" THEN TablePaths(last.content) ELSE <<>>
         IN TablePaths(SubSeq(nodes, 1, n - 1))
            \o (IF last.type = "table" THEN <<<<n>>>> ELSE <<>>)
            \o [k \in 1..Len(below) |-> <<n>> \o below[k]]

\* the sum of the amounts of the Indent nodes on the path above its last node
RECURSIVE AncestorAmounts(_, _)
AncestorAmounts(nodes, path) ==
    IF Len(path) = 1 THEN 0
    ELSE nodes[path[1]].indent + AncestorAmounts(nodes[path[1]].content, Tail(path))

\* the left paddings of the tables written to the sink, in order
RECURSIVE TableIndents(_)
TableIndents(con) ==
    IF con = <<>> THEN <<>>
    ELSE (IF Head(con).kind = "table" THEN <<Head(con).indent>> ELSE <<>>)
         \o TableIndents(Tail(con))

\* C9: every table is rendered with the sum of the amounts of its Indent
\* ancestors as indent; siblings of an Indent and nodes after it get none of
\* its amount, so a top-level table is rendered at indent 0
C9_IndentIsAncestorSum ==
    LET visited == SubSeq(doc, 1, pc - 1)
        paths == TablePaths(visited)
        got == TableIndents(console)
    IN /\ Len(got) <= Len(paths)
       /\ \A k \in 1..Len(got) : got[k] = AncestorAmounts(visited, paths[k])
       /\ raised = "none" => Len(got) = Len(paths)

\* a table under two nested Indent nodes and a top-level table after them
\* have both been rendered
C9_Witness ==
    /\ pc = 3 /\ raised = "none"
    /\ doc[1].type = "indent" /\ Len(doc[1].content) = 1
    /\ doc[1].content[1].type = "indent"
    /\ doc[1].content[1].content = <<TableNode>>
    /\ doc[2] = TableNode
    /\ TableIndents(console) = <<doc[1].indent + doc[1].content[1].indent, 0>>

====
